---- MODULE Spec2Model ----
(***************************************************************************)
(* The tomato / marigold / thrips simulation engine (model.py, agents.py). *)
(*                                                                         *)
(* Numbers: temperatures are kept in tenths of a degree (29 C = 290), the  *)
(* trap ratio in hundredths (0.2 = 20), random draws of random.random() in *)
(* hundredths, rain sums in tenths of a millimetre.  Python's None is the  *)
(* value NoneVal.  The grid of the code is 40 x 40; the model keeps the    *)
(* code's loops and scales the two dimensions down to GridW x GridH, and   *)
(* likewise the lengths 100 (days_needed) and 50 (forced records).         *)
(***************************************************************************)
EXTENDS Integers, Sequences, FiniteSets, TLC

VARIABLES
    pc,                     \* "new" | "laid" | "weather" | "raised" | "idle" | "move" | "feed" | "life"
    args,                   \* the constructor's arguments: layout, ratio, scenario
    weather_history,        \* self.weather_history
    current_step_tracker,   \* self.current_step_tracker
    current_weather,        \* self.current_weather
    is_outbreak_mode,       \* self.is_outbreak_mode
    optimal_weather_streak, \* self.optimal_weather_streak
    outbreak_cause,         \* self.outbreak_cause
    yield_loss_pct,         \* self.yield_loss_pct, a fraction [num, den]
    last_safe_state,        \* self.last_safe_state
    grid,                   \* self.grid: cell -> the agents in it
    agent,                  \* every agent object ever made: id -> [kind, pos, health]
    registry,               \* model.agents: the ids Mesa has registered
    schedule,               \* self.schedule: the scheduler's agent set
    thrips_series,          \* datacollector.model_vars["Thrips"]
    queue,                  \* the scheduler's shuffled activation list still to run
    log,                    \* history: agent -> what it did in the current tick, in order
    start_pop               \* history: the scheduler's agents when the tick began

vars == <<pc, args, weather_history, current_step_tracker, current_weather,
          is_outbreak_mode, optimal_weather_streak, outbreak_cause,
          yield_loss_pct, last_safe_state, grid, agent, registry, schedule,
          thrips_series, queue, log, start_pop>>

----------------------------------------------------------------------------
(* Bounds *)

GridW == 2
GridH == 2
DaysNeeded == 2
ForcedDays == 1
MaxTicks == 3
MaxPests == 2

NoneVal == 0 - 1000000

Cells == {<<x, y>> : x \in 0..(GridW - 1), y \in 0..(GridH - 1)}

Last(s) == s[Len(s)]

Max(a, b) == IF a > b THEN a ELSE b

Min(a, b) == IF a < b THEN a ELSE b

----------------------------------------------------------------------------
(* generate_layout *)

\* freq = int(1/ratio) if ratio > 0 else 100, the ratio in hundredths
Freq(ratio) == IF ratio > 0 THEN 100 \div ratio ELSE 100

IsTrap(layout, ratio, x, y) ==
    IF layout = "intercropping" THEN y % Freq(ratio) = 0
    ELSE IF layout = "perimeter"
         THEN x < 2 \/ x >= GridW - 2 \/ y < 2 \/ y >= GridH - 2
         ELSE FALSE

\* The loops visit x outermost and y innermost; Mesa numbers agents from 1.
CropId(x, y) == x * GridH + y + 1

CellOfIndex(i) == <<i \div GridH, i % GridH>>

CropAgent(crop_type, c) == [kind |-> crop_type, pos |-> c, health |-> 100]

GenerateLayoutAgents(layout, ratio) ==
    [i \in 1..(GridW * GridH) |->
        LET c == CellOfIndex(i - 1)
        IN  CropAgent(IF IsTrap(layout, ratio, c[1], c[2]) THEN "Marigold" ELSE "Tomato", c)]

GenerateLayoutGrid == [c \in Cells |-> {CropId(c[1], c[2])}]

----------------------------------------------------------------------------
(* Weather timeline: __init__ lines 33-42, fetch_weather_data, extend_weather_data *)

ForcedRecord == [temp |-> 290, humidity |-> 55, rain |-> FALSE]

DefaultRecord == [temp |-> 250, humidity |-> 50, rain |-> FALSE]

\* A field the provider's JSON leaves out (KeyError / IndexError when read).
MissingVal == 0 - 2000000

\* Reading entry d raises inside the try block: a field is missing, or
\* rain_sum is null (None > 1.0 is a TypeError).
EntryRaises(d) ==
    \/ d.temp = MissingVal
    \/ d.humidity = MissingVal
    \/ d.rain_sum = MissingVal
    \/ d.rain_sum = NoneVal

\* temp and humidity are stored as given (null included); rain_sum > 1.0
RawToRecord(d) == [temp |-> d.temp, humidity |-> d.humidity, rain |-> d.rain_sum > 10]

\* The for loop of fetch_weather_data: an exception ends it, is caught, and
\* the records appended so far stay in weather_history.
RECURSIVE FetchLoop(_, _, _)
FetchLoop(days, i, hist) ==
    IF i > Len(days) THEN hist
    ELSE IF EntryRaises(days[i]) THEN hist
    ELSE FetchLoop(days, i + 1, Append(hist, RawToRecord(days[i])))

\* resp.status: "error" (the request or its JSON failed), "nodaily" (no
\* 'daily' key), "daily".
FetchWeatherData(resp) ==
    IF resp.status = "daily" THEN FetchLoop(resp.days, 1, << >>) ELSE << >>

Clamp(lo, hi, v) == Max(lo, Min(hi, v))

\* round(last_temp, 1): hundredths of a degree to tenths, half to even
RoundTenths(h) ==
    LET q == h \div 10
        r == h % 10
    IN  IF r < 5 THEN q
        ELSE IF r > 5 THEN q + 1
        ELSE IF q % 2 = 0 THEN q ELSE q + 1

\* int(last_hum): tenths of a percent to whole percent (last_hum >= 20)
IntHum(t) == t \div 10

\* The for loop of extend_weather_data; last_temp in hundredths of a degree,
\* last_hum in tenths of a percent, draws[i] = [dt, dh, rain] the three
\* random draws of iteration i.
RECURSIVE ExtendLoop(_, _, _, _, _)
ExtendLoop(hist, last_temp, last_hum, draws, i) ==
    IF i > Len(draws) THEN hist
    ELSE LET t == Clamp(1500, 3800, last_temp + draws[i].dt)
             h == Clamp(200, 950, last_hum + draws[i].dh)
             rec == [temp |-> RoundTenths(t), humidity |-> IntHum(h), rain |-> draws[i].rain]
         IN  ExtendLoop(Append(hist, rec), t, h, draws, i + 1)

\* Mutant: the walk stops one record short.
ExtendCountShort(hist, days_needed) == Max(0, days_needed - Len(hist) - 1)

\* range(days_needed - current_len) runs this many times
ExtendCount(hist, days_needed) == Max(0, days_needed - Len(hist))

\* last_temp += random.uniform(...) with last_temp None is a TypeError,
\* which nothing catches.
ExtendRaises(hist, days_needed) ==
    /\ ExtendCount(hist, days_needed) > 0
    /\ Len(hist) > 0
    /\ (Last(hist).temp = NoneVal \/ Last(hist).humidity = NoneVal)

ExtendWeatherData(hist, draws) ==
    IF Len(hist) = 0
    THEN ExtendLoop(hist, 2800, 500, draws, 1)
    ELSE ExtendLoop(hist, Last(hist).temp * 10, Last(hist).humidity * 10, draws, 1)

IsForced(scenario) == scenario = "Force Outbreak"

ForcedHistory == [i \in 1..ForcedDays |-> ForcedRecord]

\* lines 37-39: the fetch, then the one default record if nothing came
BaseHistory(resp) ==
    LET fetched == FetchWeatherData(resp)
    IN  IF fetched = << >> THEN <<DefaultRecord>> ELSE fetched

----------------------------------------------------------------------------
(* initialize_pests *)

CellIndex(c) == c[1] * GridH + c[2]

\* spawn_prob = 0.08 * dist / max_dist is positive except at the centre
\* cell, and below 1 everywhere: any set of non-centre cells may spawn.
SpawnPossible(c) == c # <<GridW \div 2, GridH \div 2>>

ThripAgent(c) == [kind |-> "Thrip", pos |-> c, age |-> 0]

Pests(a) == {i \in DOMAIN a : a[i].kind = "Thrip"}

\* The pests made for the cells of S, in the loops' order, after the crops.
SeedOrder(S) ==
    [k \in 1..Cardinality(S) |->
        CHOOSE c \in S : Cardinality({d \in S : CellIndex(d) < CellIndex(c)}) = k - 1]

InitializePestsAgents(crops, S) ==
    crops \o [k \in 1..Cardinality(S) |-> ThripAgent(SeedOrder(S)[k])]

InitializePestsGrid(g, S) ==
    [c \in Cells |->
        IF c \in S
        THEN g[c] \cup {GridW * GridH + Cardinality({d \in S : CellIndex(d) < CellIndex(c)}) + 1}
        ELSE g[c]]

----------------------------------------------------------------------------
(* capture_safe_state, calculate_yield_loss *)

KindCount(g, a, c, k) == Cardinality({i \in g[c] : a[i].kind = k})

\* The three position lists, in coord_iter's order: a cell appears once per
\* agent of the kind in it.
Snapshot(g, a) ==
    [tomatoes  |-> [c \in Cells |-> KindCount(g, a, c, "Tomato")],
     marigolds |-> [c \in Cells |-> KindCount(g, a, c, "Marigold")],
     pests     |-> [c \in Cells |-> KindCount(g, a, c, "Thrip")]]

GridAgents(g) == UNION {g[c] : c \in Cells}

TomatoesOnGrid(g, a) == {i \in GridAgents(g) : a[i].kind = "Tomato"}

RECURSIVE SumHealth(_, _)
SumHealth(a, S) ==
    IF S = {} THEN 0
    ELSE LET i == CHOOSE j \in S : TRUE
         IN  a[i].health + SumHealth(a, S \ {i})

\* Mutant: the scan runs over the scheduler's agents (the pests), which
\* hold no Tomato.
CalculateYieldLossOverSchedule(g, a) ==
    LET found == {i \in Pests(a) : a[i].kind = "Tomato"}
        total_potential == 100 * Cardinality(found)
    IN  IF total_potential > 0
        THEN [num |-> (total_potential - SumHealth(a, found)) * 100, den |-> total_potential]
        ELSE [num |-> 0, den |-> 1]

\* yield_loss_pct as the fraction num/den of (loss / total_potential) * 100
CalculateYieldLoss(g, a) ==
    LET total_potential == 100 * Cardinality(TomatoesOnGrid(g, a))
        current_health == SumHealth(a, TomatoesOnGrid(g, a))
    IN  IF total_potential > 0
        THEN [num |-> (total_potential - current_health) * 100, den |-> total_potential]
        ELSE [num |-> 0, den |-> 1]

----------------------------------------------------------------------------
(* ThripAgent.move, feed, biological_lifecycle *)

Abs(n) == IF n < 0 THEN 0 - n ELSE n

\* Mutant: the grid wraps around (torus=True), w and h its width and height.
NeighborhoodTorus(g, p) ==
    LET w == Cardinality({c[1] : c \in DOMAIN g})
        h == Cardinality({c[2] : c \in DOMAIN g})
    IN  {c \in DOMAIN g :
            /\ c # p
            /\ \E dx, dy \in {0 - 1, 0, 1} :
                  c = <<(p[1] + dx + w) % w, (p[2] + dy + h) % h>>}

\* grid.get_neighborhood(pos, moore=True, include_center=False), torus=False:
\* the cells of the grid g next to p
Neighborhood(g, p) ==
    {c \in DOMAIN g : c # p /\ Abs(c[1] - p[1]) <= 1 /\ Abs(c[2] - p[2]) <= 1}

\* grid.get_neighbors(pos, moore=True, include_center=False, radius=1)
Neighbors(g, p) == UNION {g[c] : c \in Neighborhood(g, p)}

\* [a.pos for a in neighbors if isinstance(a, MarigoldAgent)]
MarigoldCells(g, a, p) == {a[i].pos : i \in {j \in Neighbors(g, p) : a[j].kind = "Marigold"}}

\* The cells move() may choose; u is the draw of random.random(), made only
\* when marigold_cells is not empty.
MoveTargets(g, a, p, u) ==
    IF MarigoldCells(g, a, p) # {} /\ u < 80
    THEN MarigoldCells(g, a, p)
    ELSE Neighborhood(g, p)

\* grid.move_agent(self, new_pos)
MoveAgentGrid(g, i, from, to) ==
    [c \in DOMAIN g |->
        IF c = to THEN (g[c] \ {i}) \cup {i}
        ELSE IF c = from THEN g[c] \ {i}
        ELSE g[c]]

\* Mutant: the health is not floored at 0.
DamageUnfloored(h) == h - 25

\* agent.health -= 25; if agent.health < 0: agent.health = 0
Damage(h) == IF h - 25 < 0 THEN 0 ELSE h - 25

\* feed(): every Tomato in the pest's cell is damaged
FeedAgents(g, a, i) ==
    [j \in DOMAIN a |->
        IF j \in g[a[i].pos] /\ a[j].kind = "Tomato"
        THEN [a[j] EXCEPT !.health = Damage(@)]
        ELSE a[j]]

\* Mutant: a Tomato that was fed on is taken off the grid.
FeedGridRemovesEaten(g, a, i) ==
    [c \in Cells |->
        IF c = a[i].pos THEN {j \in g[c] : a[j].kind # "Tomato"} ELSE g[c]]

\* feed() leaves the grid's cell lists as they are
FeedGrid(g, a, i) == g

DeathProb(w) == IF w.humidity > 60 \/ w.rain THEN 45 ELSE 5

ReproProb(w, outbreak) ==
    (IF 250 <= w.temp /\ w.temp <= 300 /\ w.humidity < 60 THEN 15 ELSE 2)
    + (IF outbreak THEN 20 ELSE 0)

\* self.remove(): mesa.Agent.remove() deregisters the agent from the model
\* (model.agents).  It does not call grid.remove_agent nor schedule.remove:
\* the cell list and the scheduler keep the agent.
RemoveRegistry(r, i) == r \ {i}

RemoveGrid(g, a, i) == g

RemoveSchedule(s, i) == s

\* The values random.random() is drawn from, in hundredths
Draws == {1, 10, 30, 90}

Optimal(w) == 250 <= w.temp /\ w.temp <= 320 /\ w.humidity < 65

\* All the orders self._agents.shuffle() can leave the scheduler's agents in
Orders(S) == {q \in [1..Cardinality(S) -> S] : \A i, j \in 1..Cardinality(S) : i # j => q[i] # q[j]}

----------------------------------------------------------------------------
(* TomatoModel.step.  One call runs to completion; pc and queue are its    *)
(* position: lines 148-165 and the scheduler's shuffle (StepBegin), then   *)
(* for each agent of the shuffled list its move, feed and                  *)
(* biological_lifecycle, and line 167 after the last one.                  *)

\* History: agent i did act; an agent made during the tick has no entry yet.
Logged(l, i, act) ==
    [j \in DOMAIN l \cup {i} |->
        IF j = i THEN Append(IF i \in DOMAIN l THEN l[i] ELSE << >>, act)
        ELSE l[j]]

\* Mutant: the weather index runs one day ahead of the tick counter.
DayIdxAhead(tick, len) == (tick + 1) % len

\* day_idx = self.current_step_tracker % len(self.weather_history)
DayIdx(tick, len) == tick % len

\* Mutant: a non-optimal day leaves the streak as it was.
NextStreakKept(w, streak) == IF Optimal(w) THEN streak + 1 ELSE streak

\* lines 155-159: the streak after a day of weather w
NextStreak(w, streak) == IF Optimal(w) THEN streak + 1 ELSE 0

\* line 163
OutbreakFlag(streak) == streak >= 2

\* Mutant: the snapshot is retaken on every non-optimal day.
CaptureDueAlways(w, outbreak) == ~Optimal(w)

\* lines 158-161: capture_safe_state runs in the else branch, and only while
\* is_outbreak_mode still holds the previous tick's value False
CaptureDue(w, outbreak) == ~Optimal(w) /\ ~outbreak

StepBegin ==
    /\ pc = "idle"
    /\ current_step_tracker < MaxTicks
    /\ LET day_idx == DayIdx(current_step_tracker, Len(weather_history))
           w == weather_history[day_idx + 1]
           streak == NextStreak(w, optimal_weather_streak)
       IN  /\ current_weather' = w
           /\ optimal_weather_streak' = streak
           /\ outbreak_cause' = IF Optimal(w) THEN [temp |-> w.temp, rh |-> w.humidity]
                                ELSE outbreak_cause
           /\ last_safe_state' = IF CaptureDue(w, is_outbreak_mode)
                                 THEN Snapshot(grid, agent)
                                 ELSE last_safe_state
           /\ is_outbreak_mode' = OutbreakFlag(streak)
    /\ yield_loss_pct' = CalculateYieldLoss(grid, agent)
    /\ thrips_series' = Append(thrips_series, Cardinality(schedule))
    /\ \E order \in Orders(schedule) :
          /\ queue' = order
          /\ IF order = << >>
             THEN pc' = "idle" /\ current_step_tracker' = current_step_tracker + 1
             ELSE pc' = "move" /\ UNCHANGED current_step_tracker
    /\ log' = [i \in Pests(agent) |-> << >>]
    /\ start_pop' = schedule
    /\ UNCHANGED <<args, weather_history, grid, agent, registry, schedule>>

Move ==
    /\ pc = "move"
    /\ LET i == Head(queue)
       IN  \E u \in Draws :
             \E new_pos \in MoveTargets(grid, agent, agent[i].pos, u) :
                /\ grid' = MoveAgentGrid(grid, i, agent[i].pos, new_pos)
                /\ agent' = [agent EXCEPT ![i].pos = new_pos]
                /\ log' = Logged(log, i, "move")
    /\ pc' = "feed"
    /\ UNCHANGED <<args, weather_history, current_step_tracker, current_weather,
                   is_outbreak_mode, optimal_weather_streak, outbreak_cause,
                   yield_loss_pct, last_safe_state, registry, schedule,
                   thrips_series, queue, start_pop>>

Feed ==
    /\ pc = "feed"
    /\ LET i == Head(queue)
       IN  /\ agent' = FeedAgents(grid, agent, i)
           /\ grid' = FeedGrid(grid, agent, i)
           /\ log' = Logged(log, i, "feed")
    /\ pc' = "life"
    /\ UNCHANGED <<args, weather_history, current_step_tracker, current_weather,
                   is_outbreak_mode, optimal_weather_streak, outbreak_cause,
                   yield_loss_pct, last_safe_state, registry, schedule,
                   thrips_series, queue, start_pop>>

\* Mutant: an agent added to the scheduler joins the list being run.
ActivationAfterAddJoins(q, offspring) == Append(q, offspring)

\* schedule.add(offspring) during schedule.step(): the scheduler runs over
\* the list of agents it took before the first one acted, which the add
\* does not change.
ActivationAfterAdd(q, offspring) == q

\* After an agent's step: the next agent of the list q, or line 167.
AgentDone(q) ==
    /\ queue' = Tail(q)
    /\ IF Tail(q) = << >>
       THEN pc' = "idle" /\ current_step_tracker' = current_step_tracker + 1
       ELSE pc' = "move" /\ UNCHANGED current_step_tracker

Die(i) ==
    /\ registry' = RemoveRegistry(registry, i)
    /\ grid' = RemoveGrid(grid, agent, i)
    /\ schedule' = RemoveSchedule(schedule, i)
    /\ agent' = agent
    /\ AgentDone(queue)

Reproduce(i) ==
    /\ Cardinality(Pests(agent)) < MaxPests
    /\ LET offspring == Len(agent) + 1
       IN  /\ agent' = Append(agent, ThripAgent(agent[i].pos))
           /\ registry' = registry \cup {offspring}
           /\ grid' = [grid EXCEPT ![agent[i].pos] = @ \cup {offspring}]
           /\ schedule' = schedule \cup {offspring}
           /\ AgentDone(ActivationAfterAdd(queue, offspring))

Survive(i) ==
    /\ UNCHANGED <<agent, registry, grid, schedule>>
    /\ AgentDone(queue)

Life ==
    /\ pc = "life"
    /\ LET i == Head(queue)
       IN  \E u1 \in Draws :
             IF u1 < DeathProb(current_weather)
             THEN Die(i)
             ELSE \E u2 \in Draws :
                    IF u2 < ReproProb(current_weather, is_outbreak_mode)
                    THEN Reproduce(i)
                    ELSE Survive(i)
    /\ log' = Logged(log, Head(queue), "life")
    /\ UNCHANGED <<args, weather_history, current_weather, is_outbreak_mode,
                   optimal_weather_streak, outbreak_cause, yield_loss_pct,
                   last_safe_state, thrips_series, start_pop>>

----------------------------------------------------------------------------
(* TomatoModel.__init__ *)

NoCause == [temp |-> NoneVal, rh |-> NoneVal]

NoSnapshot == [none |-> TRUE]

EmptyGrid == [c \in Cells |-> {}]

\* The engine as __init__ leaves it for arguments a, the timeline hist that
\* the weather setup built and the cells S whose spawn draw succeeded.
Constructed(a, hist, S) ==
    LET crops == GenerateLayoutAgents(a.layout, a.ratio)
        all == InitializePestsAgents(crops, S)
        g == InitializePestsGrid(GenerateLayoutGrid, S)
    IN  /\ pc = "idle"
        /\ args = a
        /\ weather_history = hist
        /\ current_step_tracker = 0
        /\ current_weather = hist[1]
        /\ is_outbreak_mode = FALSE
        /\ optimal_weather_streak = 0
        /\ outbreak_cause = NoCause
        /\ yield_loss_pct = [num |-> 0, den |-> 1]
        /\ last_safe_state = Snapshot(g, all)
        /\ grid = g
        /\ agent = all
        /\ registry = DOMAIN all
        /\ schedule = Pests(all)
        /\ thrips_series = << >>
        /\ queue = << >>
        /\ log = [i \in Pests(all) |-> << >>]
        /\ start_pop = {}

\* The outcomes of the spawn draws the engine is started from: no pest, or
\* one pest at the corner (0, 0), the cell farthest from the centre.
SeedSets == {{}} \cup {{c} : c \in {d \in Cells : SpawnPossible(d) /\ d = <<0, 0>>}}

\* The arguments, provider responses and random-walk draws the engine is
\* started from.
EngineArgs ==
    {[layout |-> "intercropping", ratio |-> 20, scenario |-> "Real Data (API)"],
     [layout |-> "perimeter", ratio |-> 20, scenario |-> "Force Outbreak"]}

EngineDay(t, h, r) == [temp |-> t, humidity |-> h, rain_sum |-> r]

EngineResponses ==
    {[status |-> "error", days |-> << >>],
     [status |-> "daily",
      days |-> <<EngineDay(305, 40, 0), EngineDay(310, 64, 25), EngineDay(330, 70, 0)>>]}

EngineDraws == {[dt |-> 0 - 150, dh |-> 45, rain |-> FALSE]}

Init ==
    \E a \in EngineArgs, S \in SeedSets :
        IF IsForced(a.scenario)
        THEN Constructed(a, ForcedHistory, S)
        ELSE \E resp \in EngineResponses :
               \E draws \in [1..ExtendCount(BaseHistory(resp), DaysNeeded) -> EngineDraws] :
                  Constructed(a, ExtendWeatherData(BaseHistory(resp), draws), S)

Next == StepBegin \/ Move \/ Feed \/ Life

Spec == Init /\ [][Next]_vars

----------------------------------------------------------------------------
(* The constructor's parts on their own: a fresh model (lines 15-30), then  *)
(* generate_layout, or the weather setup of lines 33-42, applied to inputs  *)
(* drawn from bounded sets.                                                 *)

Fresh(a) ==
    /\ pc = "new"
    /\ args = a
    /\ weather_history = << >>
    /\ current_step_tracker = 0
    /\ current_weather = NoCause
    /\ is_outbreak_mode = FALSE
    /\ optimal_weather_streak = 0
    /\ outbreak_cause = NoCause
    /\ yield_loss_pct = [num |-> 0, den |-> 1]
    /\ last_safe_state = NoSnapshot
    /\ grid = EmptyGrid
    /\ agent = << >>
    /\ registry = {}
    /\ schedule = {}
    /\ thrips_series = << >>
    /\ queue = << >>
    /\ log = << >>
    /\ start_pop = {}

Layouts == {"intercropping", "perimeter"}

\* Trap ratios in hundredths, some outside [0, 1]
Ratios == (0 - 10)..120

\* y % freq with freq = int(1/ratio) = 0 is a ZeroDivisionError
LayoutRaises(layout, ratio) == layout = "intercropping" /\ Freq(ratio) = 0

LayoutInit ==
    \E l \in Layouts, r \in Ratios :
        Fresh([layout |-> l, ratio |-> r, scenario |-> "Real Data (API)"])

GenerateLayout ==
    /\ pc = "new"
    /\ IF LayoutRaises(args.layout, args.ratio)
       THEN /\ pc' = "raised"
            /\ UNCHANGED <<agent, grid, registry>>
       ELSE /\ pc' = "laid"
            /\ agent' = GenerateLayoutAgents(args.layout, args.ratio)
            /\ grid' = GenerateLayoutGrid
            /\ registry' = 1..(GridW * GridH)
    /\ UNCHANGED <<args, weather_history, current_step_tracker, current_weather,
                   is_outbreak_mode, optimal_weather_streak, outbreak_cause,
                   yield_loss_pct, last_safe_state, schedule, thrips_series,
                   queue, log, start_pop>>

SpecLayout == LayoutInit /\ [][GenerateLayout]_vars

RawDay(t, h, r) == [temp |-> t, humidity |-> h, rain_sum |-> r]

\* Daily entries a provider response may hold: usable ones, ones with a null
\* field, one with a field missing.
RawDays ==
    {RawDay(300, 50, 0), RawDay(240, 70, 25), RawDay(NoneVal, 50, 0),
     RawDay(300, NoneVal, 0), RawDay(300, 50, NoneVal), RawDay(MissingVal, 50, 0)}

Responses ==
    {[status |-> "error", days |-> << >>], [status |-> "nodaily", days |-> << >>]}
    \cup {[status |-> "daily", days |-> d] :
            d \in UNION {[1..n -> RawDays] : n \in 0..(DaysNeeded + 1)}}

\* The draws of one iteration of the random walk: uniform(-1.5, 1.5) in
\* hundredths, uniform(-5, 5) in tenths, and random.random() < 0.1
WeatherDraws ==
    {[dt |-> t, dh |-> h, rain |-> r] :
        t \in {0 - 150, 5, 150}, h \in {0 - 50, 7, 50}, r \in BOOLEAN}

Scenarios == {"Real Data (API)", "Force Outbreak"}

WeatherInit ==
    \E sc \in Scenarios :
        Fresh([layout |-> "intercropping", ratio |-> 20, scenario |-> sc])

WeatherSetup ==
    /\ pc = "new"
    /\ IF IsForced(args.scenario)
       THEN /\ weather_history' = ForcedHistory
            /\ current_weather' = ForcedHistory[1]
            /\ pc' = "weather"
       ELSE \E resp \in Responses :
              IF ExtendRaises(BaseHistory(resp), DaysNeeded)
              THEN /\ weather_history' = BaseHistory(resp)
                   /\ pc' = "raised"
                   /\ UNCHANGED current_weather
              ELSE \E draws \in [1..ExtendCount(BaseHistory(resp), DaysNeeded) -> WeatherDraws] :
                     /\ weather_history' = ExtendWeatherData(BaseHistory(resp), draws)
                     /\ current_weather' = weather_history'[1]
                     /\ pc' = "weather"
    /\ UNCHANGED <<args, current_step_tracker, is_outbreak_mode,
                   optimal_weather_streak, outbreak_cause, yield_loss_pct,
                   last_safe_state, grid, agent, registry, schedule,
                   thrips_series, queue, log, start_pop>>

SpecWeather == WeatherInit /\ [][WeatherSetup]_vars

----------------------------------------------------------------------------
(* ThripAgent.move and ThripAgent.feed on their own: one call of the method *)
(* on a pest, applied to grids, crops and pest positions drawn from bounded *)
(* sets.  move() reads self.pos and the grid, feed() reads self.pos, the    *)
(* grid and the crops' health; the fields neither reads keep the values     *)
(* lines 22-30 give them.                                                   *)

\* The engine at the call of method step ("move" or "feed") on pest i, with
\* the grid g and the agents all.
Called(step, a, g, all, i) ==
    /\ pc = step
    /\ args = a
    /\ weather_history = << >>
    /\ current_step_tracker = 0
    /\ current_weather = NoCause
    /\ is_outbreak_mode = FALSE
    /\ optimal_weather_streak = 0
    /\ outbreak_cause = NoCause
    /\ yield_loss_pct = [num |-> 0, den |-> 1]
    /\ last_safe_state = NoSnapshot
    /\ grid = g
    /\ agent = all
    /\ registry = DOMAIN all
    /\ schedule = Pests(all)
    /\ thrips_series = << >>
    /\ queue = <<i>>
    /\ log = [j \in Pests(all) |-> IF j = i /\ step = "feed" THEN <<"move">> ELSE << >>]
    /\ start_pop = Pests(all)

\* The width and height of the grid move() is called on
FieldW == 3
FieldH == 3

FieldCells == {<<x, y>> : x \in 0..(FieldW - 1), y \in 0..(FieldH - 1)}

\* Trap ratios that give the rows of the field every mix: Marigolds in row 0
\* only, in every second row, in every row.
FieldRatios == {20, 50, 100}

FieldCropId(c) == c[1] * FieldH + c[2] + 1

\* generate_layout with the intercropping policy on the field
FieldAgents(ratio) ==
    [k \in 1..(FieldW * FieldH) |->
        LET c == <<(k - 1) \div FieldH, (k - 1) % FieldH>>
        IN  CropAgent(IF IsTrap("intercropping", ratio, c[1], c[2]) THEN "Marigold" ELSE "Tomato", c)]

\* The pests stand in any cells of the field, and the first is about to move.
MoveInit ==
    \E r \in FieldRatios, n \in 1..MaxPests :
        \E at \in [1..n -> FieldCells] :
            LET laid == FieldAgents(r)
                all == laid \o [k \in 1..n |-> ThripAgent(at[k])]
                g == [c \in FieldCells |->
                        {FieldCropId(c)} \cup {Len(laid) + k : k \in {m \in 1..n : at[m] = c}}]
            IN  Called("move", [layout |-> "intercropping", ratio |-> r, scenario |-> "Real Data (API)"],
                       g, all, Len(laid) + 1)

SpecMove == MoveInit /\ [][Move]_vars

\* The values a crop's health takes: 100 less any number of feedings
Healths == {0, 25, 50, 75, 100}

\* The pests stand in any cells, the Tomatoes have any health, and the first
\* pest is about to feed.
FeedInit ==
    \E l \in Layouts, n \in 1..MaxPests :
        LET laid == GenerateLayoutAgents(l, 20)
            tomatoes == {k \in DOMAIN laid : laid[k].kind = "Tomato"}
        IN  \E at \in [1..n -> Cells], hs \in [tomatoes -> Healths] :
              LET crops == [k \in DOMAIN laid |->
                              IF k \in tomatoes THEN [laid[k] EXCEPT !.health = hs[k]]
                              ELSE laid[k]]
                  all == crops \o [k \in 1..n |-> ThripAgent(at[k])]
                  g == [c \in Cells |->
                          GenerateLayoutGrid[c] \cup {Len(laid) + k : k \in {m \in 1..n : at[m] = c}}]
              IN  Called("feed", [layout |-> l, ratio |-> 20, scenario |-> "Real Data (API)"],
                         g, all, Len(laid) + 1)

SpecFeed == FeedInit /\ [][Feed]_vars

----------------------------------------------------------------------------
(* Claims about the engine's ticks (Spec) *)

\* The number of step() calls begun so far
Begun == IF pc = "idle" THEN current_step_tracker ELSE current_step_tracker + 1

\* The weather record the n-th step() consumed, n >= 1
Consumed(n) == weather_history[((n - 1) % Len(weather_history)) + 1]

\* The number of consecutive optimal records ending with the n-th step()
RECURSIVE OptimalRun(_)
OptimalRun(n) ==
    IF n = 0 THEN 0
    ELSE IF Optimal(Consumed(n)) THEN 1 + OptimalRun(n - 1) ELSE 0

\* C1: the streak counts the consecutive optimal ticks up to the latest one,
\* the outbreak flag is (streak >= 2), which is true exactly when the latest
\* tick's record and the one before it were both optimal, and a non-optimal
\* tick leaves streak 0 and the flag false within that same step().
C1_OutbreakFlag ==
    /\ optimal_weather_streak = OptimalRun(Begun)
    /\ is_outbreak_mode = (optimal_weather_streak >= 2)
    /\ is_outbreak_mode <=>
          (Begun >= 2 /\ Optimal(Consumed(Begun)) /\ Optimal(Consumed(Begun - 1)))
    /\ (Begun >= 1 /\ ~Optimal(Consumed(Begun)))
          => (optimal_weather_streak = 0 /\ ~is_outbreak_mode)

\* Two optimal ticks set the flag and a third, non-optimal one cleared it.
C1_Witness ==
    /\ pc = "idle"
    /\ current_step_tracker = 3
    /\ Optimal(Consumed(1)) /\ Optimal(Consumed(2)) /\ ~Optimal(Consumed(3))
    /\ ~is_outbreak_mode
    /\ schedule # {}

\* C2 as stated: after any step() that ends with the outbreak flag false,
\* last_safe_state is the snapshot of the positions taken in that step().
C2_SnapshotWheneverSafe ==
    [][(pc = "idle" /\ ~is_outbreak_mode') => last_safe_state' = Snapshot(grid, agent)]_vars

\* C2 amended: a step() retakes the snapshot, of the positions the step
\* starts from, exactly when its weather record is not optimal and the flag
\* was false when it began; every other step(), and so every step() that
\* ends with the flag true, leaves last_safe_state as it was.
C2_SnapshotOnSafeNonOptimalTick ==
    [][/\ pc = "idle" =>
            LET w == weather_history[(current_step_tracker % Len(weather_history)) + 1]
            IN  IF ~Optimal(w) /\ ~is_outbreak_mode
                THEN last_safe_state' = Snapshot(grid, agent)
                ELSE last_safe_state' = last_safe_state
       /\ pc # "idle" => last_safe_state' = last_safe_state
       /\ is_outbreak_mode' => last_safe_state' = last_safe_state]_vars

\* The second step() was not optimal and began safe: the snapshot holds the
\* positions that step began with, which its pests have since left.
C2_Witness ==
    /\ pc = "idle"
    /\ current_step_tracker = 2
    /\ Optimal(Consumed(1)) /\ ~Optimal(Consumed(2))
    /\ schedule # {}
    /\ last_safe_state.pests # Snapshot(grid, agent).pests
    /\ last_safe_state.tomatoes = Snapshot(grid, agent).tomatoes

\* C3 as stated: between operations the current weather record is
\* timeline[tick counter mod len(timeline)].
C3_WeatherAtTick ==
    pc = "idle" =>
        current_weather = weather_history[(current_step_tracker % Len(weather_history)) + 1]

\* C3 amended: the tick counter is the number of completed step() calls;
\* inside a step() the current weather record is timeline[tick mod len], and
\* between operations it is the record the latest step() consumed,
\* timeline[(tick - 1) mod len] (timeline[0] before the first step()).
C3_WeatherLagsTick ==
    /\ Len(thrips_series) = Begun
    /\ pc # "idle" =>
          current_weather = weather_history[(current_step_tracker % Len(weather_history)) + 1]
    /\ pc = "idle" =>
          current_weather =
              IF current_step_tracker = 0 THEN weather_history[1]
              ELSE weather_history[((current_step_tracker - 1) % Len(weather_history)) + 1]

\* The timeline wrapped: the latest step() consumed record 0 again, which is
\* not the record the tick counter now points at.
C3_Witness ==
    /\ pc = "idle"
    /\ Len(weather_history) >= 2
    /\ current_step_tracker = Len(weather_history) + 1
    /\ current_weather = weather_history[1]
    /\ weather_history[1] # weather_history[2]

\* C4: a pest whose mortality draw has fired (remove() was called on it)
\* occupies no cell and is not in the population; so it never acts again.
C4_DeadPestIsGone ==
    \A i \in Pests(agent) :
        i \notin registry =>
            /\ \A c \in Cells : i \notin grid[c]
            /\ i \notin schedule
            /\ \A k \in 1..Len(queue) : queue[k] # i

FullStep == <<"move", "feed", "life">>

IsPrefix(s, t) == Len(s) <= Len(t) /\ \A k \in 1..Len(s) : s[k] = t[k]

\* C5: within one step() every pest of the population at the start of the
\* tick does move, feed, reproduce-or-die once each in that order, and a pest
\* made during the tick does nothing until the next tick.
C5_EachPestActsOnce ==
    /\ \A i \in DOMAIN log : IsPrefix(log[i], FullStep)
    /\ \A i \in DOMAIN log : i \notin start_pop => log[i] = << >>
    /\ (pc = "idle" /\ current_step_tracker > 0) =>
          \A i \in start_pop : i \in DOMAIN log /\ log[i] = FullStep
    /\ \A i \in Pests(agent) : i \notin start_pop => (i \notin DOMAIN log \/ log[i] = << >>)

\* A tick ended in which a pest reproduced: the parent did its three
\* actions, the offspring none.
C5_Witness ==
    /\ pc = "idle"
    /\ current_step_tracker > 0
    /\ start_pop # {}
    /\ \E i \in schedule : i \notin start_pop

CropsAt(c) == {i \in grid[c] : agent[i].kind \in {"Tomato", "Marigold"}}

\* C6: every cell holds exactly one crop, of the kind layout generation gave
\* that cell and positioned there, after initialization and any steps.
C6_OneCropPerCell ==
    \A c \in Cells :
        /\ Cardinality(CropsAt(c)) = 1
        /\ \A i \in CropsAt(c) :
              /\ agent[i].pos = c
              /\ agent[i].kind = GenerateLayoutAgents(args.layout, args.ratio)[CropId(c[1], c[2])].kind
              /\ i = CropId(c[1], c[2])

\* A Tomato has been fed on and is still in its cell.
C6_Witness ==
    /\ pc = "idle"
    /\ current_step_tracker >= 2
    /\ \E c \in Cells : \E i \in CropsAt(c) : agent[i].kind = "Tomato" /\ agent[i].health < 100

NothingActedYet == \A i \in DOMAIN log : log[i] = << >>

ScannedTomatoes == {i \in UNION {grid[c] : c \in Cells} : agent[i].kind = "Tomato"}

RECURSIVE HealthOf(_)
HealthOf(S) ==
    IF S = {} THEN 0
    ELSE LET i == CHOOSE j \in S : TRUE IN agent[i].health + HealthOf(S \ {i})

\* C10: when step() has recomputed it (no pest has acted since), the
\* yield loss is (100*T - sum of Tomato health) / (100*T) * 100 over the T
\* Tomatoes of the grid's cells, 0 when T = 0; it is 0 while every Tomato has
\* health 100, and always within [0, 100].
C10_YieldLoss ==
    LET T == Cardinality(ScannedTomatoes)
        y == yield_loss_pct
    IN  /\ y.den > 0
        /\ 0 <= y.num /\ y.num <= 100 * y.den
        /\ (\A i \in ScannedTomatoes : agent[i].health = 100) => y.num = 0
        /\ NothingActedYet =>
              IF T = 0 THEN y.num = 0
              ELSE y.num * (100 * T) = (100 * T - HealthOf(ScannedTomatoes)) * 100 * y.den

\* A step() has just recomputed a positive loss.
C10_Witness ==
    /\ pc = "move"
    /\ NothingActedYet
    /\ yield_loss_pct.num > 0
    /\ yield_loss_pct.num < 100 * yield_loss_pct.den

----------------------------------------------------------------------------
(* Claims about one feeding (SpecFeed) and one move (SpecMove) *)

Crops == {j \in DOMAIN agent : agent[j].kind \in {"Tomato", "Marigold"}}

\* The crops a feeding of pest i damages: the Tomatoes of the pest's cell
FedOn(i) == {j \in Crops : agent[j].kind = "Tomato" /\ agent[j].pos = agent[i].pos}

\* C11: each feeding of a pest sets the health h of every Tomato in the
\* pest's cell to max(0, h - 25) and leaves every other crop's health as it
\* was, and nothing but a feeding changes a crop's health; so in every state
\* every crop's health is within [0, 100] and every Marigold's is 100.
C11_FeedDamagesTomatoes ==
    /\ [](\A j \in Crops :
             /\ 0 <= agent[j].health /\ agent[j].health <= 100
             /\ agent[j].kind = "Marigold" => agent[j].health = 100)
    /\ [][/\ Crops' = Crops
          /\ \A j \in Crops :
                agent'[j].health =
                    IF pc = "feed" /\ j \in FedOn(Head(queue))
                    THEN Max(0, agent[j].health - 25)
                    ELSE agent[j].health]_vars

\* A pest has fed in a cell whose Tomato is now at health 0, next to a
\* Marigold, while a Tomato of another cell keeps a health in between.
C11_Witness ==
    /\ pc = "life"
    /\ Last(log[Head(queue)]) = "feed"
    /\ \E j \in FedOn(Head(queue)) : agent[j].health = 0
    /\ \E j \in Crops :
          /\ agent[j].kind = "Tomato"
          /\ agent[j].pos # agent[Head(queue)].pos
          /\ agent[j].health = 50
    /\ \E j \in Crops : agent[j].kind = "Marigold"

HoldsMarigold(c) == \E j \in grid[c] : agent[j].kind = "Marigold"

\* C14: every move of a pest puts it on a cell of the grid that is not the
\* cell it was on and is within 1 of it in both coordinates, and the grid
\* holds it there and nowhere else; for a draw that takes the attraction
\* branch (a Marigold is next to the pest and random() < 0.8), every cell
\* the move may choose holds a Marigold.
C14_MoveToAdjacentCell ==
    [][pc = "move" =>
          LET i == Head(queue)
              p == agent[i].pos
              q == agent'[i].pos
          IN  /\ q \in DOMAIN grid
              /\ q # p
              /\ Abs(q[1] - p[1]) <= 1 /\ Abs(q[2] - p[2]) <= 1
              /\ \A c \in DOMAIN grid : i \in grid'[c] <=> c = q
              /\ \A u \in Draws :
                    (u < 80 /\ \E c \in DOMAIN grid :
                                  /\ c # p
                                  /\ Abs(c[1] - p[1]) <= 1 /\ Abs(c[2] - p[2]) <= 1
                                  /\ HoldsMarigold(c))
                        => \A c \in MoveTargets(grid, agent, p, u) : HoldsMarigold(c)]_vars

\* A pest has moved and stands on a Marigold's cell at the far side of a
\* field that is more than two cells wide and high.
C14_Witness ==
    /\ pc = "feed"
    /\ log[Head(queue)] = <<"move">>
    /\ agent[Head(queue)].pos = <<FieldW - 1, 0>>
    /\ HoldsMarigold(agent[Head(queue)].pos)
    /\ \E c \in DOMAIN grid : ~HoldsMarigold(c)

----------------------------------------------------------------------------
(* Claims about layout generation (SpecLayout) *)

MarigoldAt(c) == \E i \in grid[c] : agent[i].kind = "Marigold"

TomatoAt(c) == \E i \in grid[c] : agent[i].kind = "Tomato"

\* C7: with the intercropping policy and trap ratio 0, layout generation
\* leaves no Marigold in any cell (an all-Tomato grid).
C7_ZeroRatioAllTomato ==
    (pc = "laid" /\ args.layout = "intercropping" /\ args.ratio = 0)
        => \A c \in Cells : ~MarigoldAt(c) /\ TomatoAt(c)

\* round(1/r) for r = k/100, half to even as Python rounds
RoundInverse(k) ==
    LET q == 100 \div k
        r == 100 % k
    IN  IF 2 * r < k THEN q
        ELSE IF 2 * r > k THEN q + 1
        ELSE IF q % 2 = 0 THEN q ELSE q + 1

\* C8: with the intercropping policy and a trap ratio r in (0, 1], cell
\* (x, y) holds a Marigold exactly when y is a multiple of round(1/r), and a
\* Tomato otherwise.
C8_RowPeriodIsRounded ==
    (pc = "laid" /\ args.layout = "intercropping" /\ args.ratio > 0 /\ args.ratio <= 100)
        => \A c \in Cells :
              /\ MarigoldAt(c) <=> (c[2] % RoundInverse(args.ratio) = 0)
              /\ TomatoAt(c) <=> (c[2] % RoundInverse(args.ratio) # 0)

\* A trap ratio outside (0, 1], in hundredths
InvalidRatio(ratio) == ratio <= 0 \/ ratio > 100

\* C13: initialization with a trap ratio outside (0, 1] fails with a
\* configuration error and produces no engine: layout generation never
\* completes for such a ratio, whatever the layout policy.
C13_InvalidRatioRejected ==
    InvalidRatio(args.ratio) => pc # "laid"

----------------------------------------------------------------------------
(* Claims about the weather timeline (SpecWeather) *)

C12_InitNeverRaises ==
    pc # "raised"

====
